---- MODULE Spec2Model ----
(***************************************************************************)
(* Model of the Lambda Labs support of SkyPilot:                           *)
(*   - sky/skylet/providers/lambda_labs/node_provider.py                   *)
(*     (LambdaNodeProvider: the node lifecycle manager), specification     *)
(*     Spec: several threads call the provider's methods on one instance;  *)
(*     every remote call and every access to shared state is one step;     *)
(*     specification SpecFair: the same under fair scheduling.             *)
(*   - sky/clouds/lambda_labs.py (Lambda.get_feasible_launchable_resources)*)
(*     specification SpecResolver.                                         *)
(***************************************************************************)
EXTENDS Integers, Sequences, FiniteSets, TLC

\* ------------------------------------------------------------------ bounds
NumThreads == 2
MaxVMs == 1
\* how many calls the threads make in all
MaxOps == 4
\* the same, in the runs that follow the threads to the end of their calls
MaxOpsFair == 3

Threads == 1..NumThreads
\* id 1 is a VM of another resource group that exists before construction;
\* the remote API hands out 2, 3, ... to the VMs this provider creates.
Ids == 1..(1 + MaxVMs)
\* the ids callers pass to node_tags, set_node_tags and terminate_node: the
\* ids of this group's VMs, created or not yet created
NodeIds == Ids \ {1}

\* ------------------------------------------------------- provider constants
TAG_RAY_CLUSTER_NAME == "ray-cluster-name"
cluster_name == "c"
resource_group == "rg"
OtherGroup == "og"

\* ------------------------------------------------------------ tag maps
EmptyTags == [k \in {} |-> ""]
Tag(k, v) == [x \in {k} |-> v]

\* dict.update: b's entries win, a's other entries are kept.
DictUpdate(a, b) ==
    [k \in (DOMAIN a) \cup (DOMAIN b) |-> IF k \in DOMAIN b THEN b[k] ELSE a[k]]

\* The tag maps callers pass to set_node_tags / create_node, and the filters
\* they pass to non_terminated_nodes.
SetTagInputs == {Tag("a", "2"), Tag("b", "2")}
\* create_node's inputs: caller tags, node_config['tags'], count
CreateInputs ==
    {[tags |-> Tag("a", "1"), cfg |-> Tag("a", "2"), count |-> 1],
     [tags |-> Tag(TAG_RAY_CLUSTER_NAME, "x"), cfg |-> EmptyTags, count |-> 1],
     [tags |-> Tag("a", "1"), cfg |-> EmptyTags, count |-> 0]}
FilterInputs == {EmptyTags, Tag("a", "1")}

\* ------------------------------------------------------------ remote VMs
\* The remote control plane: a VM is "none" (never created), "booting",
\* "running", "deleting" (rm accepted, listing not yet updated),
\* "terminated" (listed with is_terminated = true) or "gone" (unlisted).
Listed(st) == st \in {"booting", "running", "deleting", "terminated"}
VmState(st) ==
    CASE st = "booting" -> "pending"
      [] st = "running" -> "running"
      [] st = "deleting" -> "terminating"
      [] OTHER -> "terminated"
VmIsTerminated(st) == st = "terminated"
\* What rm / the passage of time can turn a VM into.
Reflected(st) == st \in {"terminated", "gone"}

VARIABLES
    vms,              \* remote: id -> [name: key name, st: lifecycle]
    keys,             \* remote: sequence of key names (key id = index)
    nextId,           \* remote: next VM id the API assigns
    local_metadata,   \* self.local_metadata: id -> tags, for the ids stored
    cached_nodes,     \* self.cached_nodes: id -> node record
    lock,             \* self.lock (RLock): [owner, count]
    th,               \* per thread: position, arguments and locals
    termDone,         \* history: ids whose terminate_node call has returned
    created,          \* history: id -> the tags argument of the create_node
                      \* call that made the VM and has stored its tags
    fresh,            \* history: the group had no key and no VM at construction
    nMut,             \* history: create/terminate/set_node_tags calls so far (0, 1, many)
    nOps,             \* number of calls made so far
    rs,               \* the resolver's call: request, catalog answer, result
    expect            \* history: id -> [tags, n]: the tags n successive
                      \* set_node_tags calls should have left on the node

vars == <<vms, keys, nextId, local_metadata, cached_nodes, lock, th,
          termDone, created, fresh, nMut, nOps, rs, expect>>
\* what no method of the provider writes
frozen == <<fresh, rs>>
hist == <<termDone, created, frozen, nMut, expect>>

\* Optional values: None, or Some(v).
None == [some |-> FALSE, val |-> 0]
Some(v) == [some |-> TRUE, val |-> v]
\* no resolver call is in hand
RsIdle == [pc |-> "idle", resources |-> None, oracle |-> None, out |-> None]

\* What a call returned: val holds the value, if there is one.
NoResult == [kind |-> "none", val |-> <<>>]
\* an exception raised in the provider's own code (TypeError, KeyError,
\* AssertionError)
Err == [kind |-> "err", val |-> <<>>]
\* an exception raised by a call of self.lambda_client
RemoteError == [kind |-> "remote", val |-> <<>>]
Ok(v) == [kind |-> "ok", val |-> <<v>>]

Blank ==
    [pc |-> "idle", op |-> "none", node_id |-> 0, tags |-> EmptyTags,
     cfg |-> EmptyTags, count |-> 0, filt |-> EmptyTags, ret |-> "none",
     vms_l |-> <<>>, matched |-> {}, nodes |-> <<>>, key_id |-> 0,
     vm_list |-> <<>>, excl |-> {}, seen |-> {}, want |-> NoResult,
     nomd |-> {}, own |-> FALSE, pre |-> FALSE, term |-> {}, pass |-> {},
     result |-> NoResult]

\* The provider is constructed either on a fresh resource group, or on one
\* that an earlier provider instance left with its key and a running VM
\* whose tags are in the local store (when the API has an id for it).
InitRemote ==
    \/ /\ fresh = TRUE
       /\ vms = [i \in Ids |->
                    IF i = 1 THEN [name |-> OtherGroup, st |-> "running"]
                    ELSE [name |-> "", st |-> "none"]]
       /\ keys = <<OtherGroup>>
       /\ nextId = 2
       /\ local_metadata = [i \in {1} |-> Tag("a", "1")]
    \/ /\ fresh = FALSE
       /\ vms = [i \in Ids |->
                    IF i = 1 THEN [name |-> OtherGroup, st |-> "running"]
                    ELSE IF i = 2 THEN [name |-> resource_group, st |-> "running"]
                    ELSE [name |-> "", st |-> "none"]]
       /\ keys = <<OtherGroup, resource_group>>
       /\ nextId = 3
       /\ local_metadata =
            [i \in {1, 2} |->
                IF i = 1 THEN Tag("a", "1")
                ELSE DictUpdate(Tag("a", "1"),
                                Tag(TAG_RAY_CLUSTER_NAME, cluster_name))]

Init ==
    /\ InitRemote
    /\ cached_nodes = <<>>
    /\ lock = [owner |-> 0, count |-> 0]
    /\ th = [t \in Threads |-> Blank]
    /\ termDone = {}
    /\ created = <<>>
    /\ nMut = 0
    /\ nOps = 0
    /\ expect = <<>>
    /\ rs = RsIdle

\* ------------------------------------------------------------- the lock
\* mutant: a plain lock, which its holder cannot take again
CanAcquire_plain(t) == lock.owner = 0

\* synchronized: self.lock.acquire() on an RLock.
CanAcquire(t) == lock.owner \in {0, t}
Acquired(t) == [owner |-> t, count |-> lock.count + 1]
\* self.lock.release() in the wrapper's finally.
Released == IF lock.count = 1 THEN [owner |-> 0, count |-> 0]
            ELSE [owner |-> lock.owner, count |-> lock.count - 1]
\* An exception unwinds every synchronized frame of the thread.
Unwound(t) == IF lock.owner = t THEN [owner |-> 0, count |-> 0] ELSE lock

\* The call returns r: its frame is gone; what stays is the record of the
\* call (its arguments, the listing its refresh read, what it returned).
Returned(call, r) ==
    [Blank EXCEPT !.pc = "done", !.op = call.op, !.node_id = call.node_id,
                  !.tags = call.tags, !.cfg = call.cfg, !.count = call.count,
                  !.filt = call.filt, !.vms_l = call.vms_l,
                  !.nodes = call.nodes, !.excl = call.excl,
                  !.seen = call.seen, !.nomd = call.nomd, !.own = call.own,
                  !.pre = call.pre, !.term = call.term, !.pass = call.pass,
                  !.result = r]
Finish(t, r) == [th EXCEPT ![t] = Returned(th[t], r)]

\* A thread makes its next call once the previous one has returned; its
\* locals are those of the last call until then. The threads are
\* interchangeable, so thread t + 1 makes its first call after thread t did.
CanCall(t) ==
    /\ th[t].pc \in {"idle", "done"}
    /\ t > 1 => th[t - 1].pc # "idle"

\* ------------------------------------------------ _get_filtered_nodes
\* mutant: a key the node lacks passes the filter
match_tags_lenient(tags, tag_filters) ==
    \A k \in DOMAIN tag_filters : k \in DOMAIN tags => tags[k] = tag_filters[k]

\* match_tags: every filter key must be present with the same value.
match_tags(tags, tag_filters) ==
    \A k \in DOMAIN tag_filters : k \in DOMAIN tags /\ tags[k] = tag_filters[k]

\* self.local_metadata[id]: None when nothing is stored, read as no tags.
MdTags(md, id) == IF id \in DOMAIN md THEN md[id] ELSE EmptyTags

\* mutant: the record never says terminated
extract_metadata_live(id, vm, md) ==
    [status |-> VmState(vm.st), tags |-> MdTags(md, id), is_terminated |-> FALSE]

extract_metadata(id, vm, md) ==
    [status |-> VmState(vm.st), tags |-> MdTags(md, id),
     is_terminated |-> VmIsTerminated(vm.st)]

\* self.lambda_client.ls().get('data', [])
RemoteListing == [i \in {j \in Ids : Listed(vms[j].st)} |-> vms[i]]

\* mutant: the VMs of every group are kept
GroupVms_any(listing) == DOMAIN listing

\* [node for node in vms if node['public_key']['name'] == self.resource_group]
GroupVms(listing) == {i \in DOMAIN listing : listing[i].name = resource_group}

\* mutant: every listed VM of the group is kept
FilteredVms_all(listing, md, tag_filters) == GroupVms(listing)

\* Which listed VMs of the group pass the filter (filter(match_tags, vms)).
FilteredVms(listing, md, tag_filters) ==
    {i \in GroupVms(listing) : match_tags(MdTags(md, i), tag_filters)}

get_filtered_nodes_acquire(t) ==
    /\ th[t].pc = "rf_acq"
    /\ CanAcquire(t)
    /\ lock' = Acquired(t)
    /\ th' = [th EXCEPT ![t].pc = "rf_ls"]
    /\ UNCHANGED <<vms, keys, nextId, local_metadata, cached_nodes, hist, nOps>>

get_filtered_nodes_ls(t) ==
    /\ th[t].pc = "rf_ls"
    /\ \/ /\ th' = [th EXCEPT ![t].pc = "rf_match", ![t].vms_l = RemoteListing]
          /\ UNCHANGED lock
       \/ \* the remote call raises: the finally clauses release the lock
          /\ th' = Finish(t, RemoteError)
          /\ lock' = Unwound(t)
    /\ UNCHANGED <<vms, keys, nextId, local_metadata, cached_nodes, hist, nOps>>

\* history: the listed VMs of the group with no entry in the local store
NoEntry(listing, md) == {i \in GroupVms(listing) : i \notin DOMAIN md}

\* history: the group's listed VMs whose stored tags hold every key of the
\* filter with the filter's value
Passing(listing, md, tag_filters) ==
    {i \in DOMAIN listing :
        /\ listing[i].name = resource_group
        /\ \A k \in DOMAIN tag_filters :
            /\ i \in DOMAIN md
            /\ k \in DOMAIN md[i]
            /\ md[i][k] = tag_filters[k]}

\* history: another thread writes the cache, so a thread about to read the
\* cache after its own refresh no longer reads what that refresh stored
Disown(thr, t) ==
    [u \in Threads |->
        IF u # t /\ thr[u].pc = "gn_get" THEN [thr[u] EXCEPT !.own = FALSE]
        ELSE thr[u]]

get_filtered_nodes_match(t) ==
    /\ th[t].pc = "rf_match"
    /\ th' = [th EXCEPT ![t].pc = "rf_store",
                        ![t].matched =
                            FilteredVms(th[t].vms_l, local_metadata, th[t].filt),
                        ![t].nomd = NoEntry(th[t].vms_l, local_metadata),
                        ![t].pass =
                            Passing(th[t].vms_l, local_metadata, th[t].filt)]
    /\ UNCHANGED <<vms, keys, nextId, local_metadata, cached_nodes, lock, hist, nOps>>

get_filtered_nodes_store(t) ==
    /\ th[t].pc = "rf_store"
    /\ LET nodes == [i \in th[t].matched |->
                        extract_metadata(i, th[t].vms_l[i], local_metadata)]
       IN /\ cached_nodes' = nodes
          /\ th' = Disown([th EXCEPT
                        ![t].pc = th[t].ret,
                        ![t].nodes = IF th[t].ret = "ntn_ret" THEN nodes ELSE <<>>,
                        ![t].nomd = th[t].nomd \cap
                                    NoEntry(th[t].vms_l, local_metadata),
                        ![t].own = (th[t].op = "node_tags")], t)
    /\ lock' = Released
    /\ UNCHANGED <<vms, keys, nextId, local_metadata, hist, nOps>>

\* ------------------------------------------------ non_terminated_nodes
\* mutant: the is_terminated test is dropped
NonTerminated_all(nodes) == DOMAIN nodes

\* [k for k, v in nodes.items() if not v['is_terminated']]
NonTerminated(nodes) == {k \in DOMAIN nodes : ~nodes[k].is_terminated}

non_terminated_nodes(t) ==
    /\ CanCall(t)
    /\ nOps < MaxOps
    /\ nOps' = nOps + 1
    /\ \E f \in FilterInputs :
        th' = [th EXCEPT ![t] = [Blank EXCEPT
                  !.pc = "rf_acq", !.op = "non_terminated_nodes",
                  !.filt = f, !.ret = "ntn_ret",
                  !.excl = {i \in termDone : Reflected(vms[i].st)},
                  !.seen = DOMAIN created, !.term = termDone]]
    /\ UNCHANGED <<vms, keys, nextId, local_metadata, cached_nodes, lock, hist>>

non_terminated_nodes_return(t) ==
    /\ th[t].pc = "ntn_ret"
    /\ th' = Finish(t, Ok(NonTerminated(th[t].nodes)))
    /\ UNCHANGED <<vms, keys, nextId, local_metadata, cached_nodes, lock, hist, nOps>>

\* ------------------------------------------------ _get_node / lookups
\* self.cached_nodes.get(node_id, None), read after the refresh returned.
CachedGet(id) == IF id \in DOMAIN cached_nodes
                 THEN [found |-> TRUE, node |-> cached_nodes[id]]
                 ELSE [found |-> FALSE, node |-> <<>>]

is_running(t) ==
    /\ CanCall(t)
    /\ nOps < MaxOps
    /\ nOps' = nOps + 1
    /\ \E id \in Ids :
        th' = [th EXCEPT ![t] = [Blank EXCEPT
                  !.pc = "rf_acq", !.op = "is_running", !.node_id = id,
                  !.ret = "gn_get"]]
    /\ UNCHANGED <<vms, keys, nextId, local_metadata, cached_nodes, lock, hist>>

\* node['status'] == 'running'; node is None raises TypeError.
is_running_get(t) ==
    /\ th[t].pc = "gn_get" /\ th[t].op = "is_running"
    /\ LET n == CachedGet(th[t].node_id)
       IN th' = Finish(t, IF n.found THEN Ok(n.node.status = "running") ELSE Err)
    /\ UNCHANGED <<vms, keys, nextId, local_metadata, cached_nodes, lock, hist, nOps>>

is_terminated(t) ==
    /\ CanCall(t)
    /\ nOps < MaxOps
    /\ nOps' = nOps + 1
    /\ \E id \in Ids :
        th' = [th EXCEPT ![t] = [Blank EXCEPT
                  !.pc = "rf_acq", !.op = "is_terminated", !.node_id = id,
                  !.ret = "gn_get", !.term = termDone]]
    /\ UNCHANGED <<vms, keys, nextId, local_metadata, cached_nodes, lock, hist>>

\* node is None or node['is_terminated']
is_terminated_get(t) ==
    /\ th[t].pc = "gn_get" /\ th[t].op = "is_terminated"
    /\ LET n == CachedGet(th[t].node_id)
       IN th' = Finish(t, Ok(~n.found \/ n.node.is_terminated))
    /\ UNCHANGED <<vms, keys, nextId, local_metadata, cached_nodes, lock, hist, nOps>>

\* ------------------------------------------------ node_tags
\* history: what the set_node_tags calls made so far should have left on id
Expected(id) == IF id \in DOMAIN expect THEN Ok(expect[id]) ELSE NoResult
Forget(id) == [i \in (DOMAIN expect) \ {id} |-> expect[i]]
Bump(n) == IF n = 0 THEN 1 ELSE 2

\* node_tags -> _get_cached_node: if node_id in self.cached_nodes
node_tags(t) ==
    /\ CanCall(t)
    /\ nOps < MaxOps
    /\ nOps' = nOps + 1
    /\ \E id \in NodeIds :
        th' = [th EXCEPT ![t] = [Blank EXCEPT
                  !.pc = IF id \in DOMAIN cached_nodes THEN "gc_read" ELSE "rf_acq",
                  !.op = "node_tags", !.node_id = id, !.ret = "gn_get",
                  !.pre = id \in NoEntry(RemoteListing, local_metadata)]]
    /\ UNCHANGED <<vms, keys, nextId, local_metadata, cached_nodes, lock, hist>>

\* return self.cached_nodes[node_id] (KeyError once the cache was replaced),
\* then ['tags'].
node_tags_read(t) ==
    /\ th[t].pc = "gc_read" /\ th[t].op = "node_tags"
    /\ LET n == CachedGet(th[t].node_id)
       IN th' = [Finish(t, IF n.found THEN Ok(n.node.tags) ELSE Err)
                    EXCEPT ![t].want = Expected(th[t].node_id)]
    /\ UNCHANGED <<vms, keys, nextId, local_metadata, cached_nodes, lock, hist, nOps>>

\* return self._get_node(node_id)['tags']; None raises TypeError.
node_tags_get(t) ==
    /\ th[t].pc = "gn_get" /\ th[t].op = "node_tags"
    /\ LET n == CachedGet(th[t].node_id)
       IN th' = [Finish(t, IF n.found THEN Ok(n.node.tags) ELSE Err)
                    EXCEPT ![t].want = Expected(th[t].node_id)]
    /\ UNCHANGED <<vms, keys, nextId, local_metadata, cached_nodes, lock, hist, nOps>>

\* ------------------------------------------------ set_node_tags
set_node_tags(t) ==
    /\ CanCall(t)
    /\ nOps < MaxOps
    /\ nOps' = nOps + 1
    /\ \E id \in NodeIds, tg \in SetTagInputs :
        th' = [th EXCEPT ![t] = [Blank EXCEPT
                  !.pc = "st_acq", !.op = "set_node_tags", !.node_id = id,
                  !.tags = tg, !.term = termDone]]
    /\ nMut' = Bump(nMut)
    /\ UNCHANGED <<vms, keys, nextId, local_metadata, cached_nodes, lock,
                   termDone, created, frozen, expect>>

set_node_tags_acquire(t) ==
    /\ th[t].pc = "st_acq"
    /\ CanAcquire(t)
    /\ lock' = Acquired(t)
    /\ th' = [th EXCEPT ![t].pc = "st_check"]
    /\ UNCHANGED <<vms, keys, nextId, local_metadata, cached_nodes, hist, nOps>>

\* mutant: the new tags replace the old ones
MergedTags_replace(node, tags) == tags

\* node_tags.update(tags): the node's own tags dict is updated in place.
MergedTags(node, tags) == DictUpdate(node.tags, tags)

\* node_tags = node['tags']; node_tags.update(tags);
\* self.local_metadata[node_id] = {"tags": node_tags}; release.
StoreTags(t, node) ==
    LET id == th[t].node_id
        merged == MergedTags(node, th[t].tags)
    IN /\ cached_nodes' = [cached_nodes EXCEPT ![id].tags = merged]
       /\ local_metadata' =
            [i \in (DOMAIN local_metadata) \cup {id} |->
                IF i = id THEN merged ELSE local_metadata[i]]
       /\ expect' =
            [i \in (DOMAIN expect) \cup {id} |->
                IF i # id THEN expect[i]
                ELSE IF id \in DOMAIN expect
                     THEN [tags |-> DictUpdate(expect[id].tags, th[t].tags),
                           n |-> 2]
                     ELSE [tags |-> DictUpdate(node.tags, th[t].tags), n |-> 1]]
       /\ th' = Disown(Finish(t, Ok(TRUE)), t)
       /\ lock' = Released

\* _get_cached_node under the lock: a cache hit is updated at once, a miss
\* goes through _get_node (a nested, re-entrant refresh).
set_node_tags_check(t) ==
    /\ th[t].pc = "st_check"
    /\ IF th[t].node_id \in DOMAIN cached_nodes
       THEN /\ StoreTags(t, cached_nodes[th[t].node_id])
            /\ UNCHANGED <<vms, keys, nextId, termDone, created, frozen, nMut>>
       ELSE /\ th' = [th EXCEPT ![t].pc = "rf_acq", ![t].ret = "gn_get"]
            /\ UNCHANGED <<vms, keys, nextId, local_metadata, cached_nodes,
                           lock, hist, nOps>>
    /\ UNCHANGED nOps

\* after the nested refresh: None['tags'] raises TypeError.
set_node_tags_get(t) ==
    /\ th[t].pc = "gn_get" /\ th[t].op = "set_node_tags"
    /\ IF th[t].node_id \in DOMAIN cached_nodes
       THEN /\ StoreTags(t, cached_nodes[th[t].node_id])
            /\ UNCHANGED <<vms, keys, nextId, termDone, created, frozen, nMut>>
       ELSE /\ th' = Finish(t, Err)
            /\ lock' = Unwound(t)
            /\ UNCHANGED <<vms, keys, nextId, local_metadata, cached_nodes, hist, nOps>>
    /\ UNCHANGED nOps

\* ------------------------------------------------ terminate_node
\* self.lambda_client.rm(node_id): the VM is deleted at once, marked
\* terminated, or still listed as before for a while; or the call raises.
terminate_node(t) ==
    /\ CanCall(t)
    /\ nOps < MaxOps
    /\ nOps' = nOps + 1
    /\ nMut' = Bump(nMut)
    /\ \E id \in NodeIds :
        LET call == [Blank EXCEPT !.op = "terminate_node", !.node_id = id]
        IN /\ expect' = Forget(id)
           /\ \/ /\ vms[id].st \in {"booting", "running", "deleting"}
                 /\ \E st \in {"deleting", "terminated", "gone"} :
                        vms' = [vms EXCEPT ![id].st = st]
                 /\ th' = [th EXCEPT ![t] = [call EXCEPT !.pc = "tm_md"]]
              \/ /\ th' = [th EXCEPT ![t] =
                            Returned(call, RemoteError)]
                 /\ UNCHANGED vms
    /\ UNCHANGED <<keys, nextId, local_metadata, cached_nodes, lock,
                   termDone, created, frozen>>

\* mutant: the entry is left in the store
RemoveEntry_keep(md, id) == md

\* self.local_metadata[node_id] = None: the store drops the entry
RemoveEntry(md, id) == [i \in (DOMAIN md) \ {id} |-> md[i]]

terminate_node_store(t) ==
    /\ th[t].pc = "tm_md"
    /\ LET id == th[t].node_id
       IN /\ local_metadata' = RemoveEntry(local_metadata, id)
          /\ termDone' = termDone \cup {id}
          /\ expect' = Forget(id)
    /\ th' = Finish(t, Ok(TRUE))
    /\ UNCHANGED <<vms, keys, nextId, cached_nodes, lock, created, frozen, nMut>>
    /\ UNCHANGED nOps

\* ------------------------------------------------ create_node
GroupKeys(ks) == {i \in 1..Len(ks) : ks[i] = resource_group}

\* for key in keys: if key['name'] == self.resource_group: ... break
FirstGroupKey(ks) == CHOOSE i \in GroupKeys(ks) : \A j \in GroupKeys(ks) : i <= j

AfterKey(call, kid) ==
    IF call.count # 0
    THEN [call EXCEPT !.pc = "cn_up", !.key_id = kid]
    ELSE Returned(call, Ok(TRUE))

\* keys = self.lambda_client.keys() and the scan for the group's key
create_node(t) ==
    /\ CanCall(t)
    /\ nOps < MaxOps
    /\ nOps' = nOps + 1
    /\ nMut' = Bump(nMut)
    /\ \E inp \in CreateInputs :
        LET call == [Blank EXCEPT !.op = "create_node", !.tags = inp.tags,
                                  !.cfg = inp.cfg, !.count = inp.count]
        IN \/ th' = [th EXCEPT ![t] =
                        IF GroupKeys(keys) # {}
                        THEN AfterKey(call, FirstGroupKey(keys))
                        ELSE [call EXCEPT !.pc = "cn_key_add"]]
           \/ th' = [th EXCEPT ![t] = Returned(call, RemoteError)]
    /\ UNCHANGED <<vms, keys, nextId, local_metadata, cached_nodes, lock,
                   termDone, created, frozen, expect>>

\* self.lambda_client.key_add(public_key, name=self.resource_group)
create_node_key_add(t) ==
    /\ th[t].pc = "cn_key_add"
    /\ \/ /\ keys' = Append(keys, resource_group)
          /\ th' = [th EXCEPT ![t] = AfterKey(th[t], Len(keys) + 1)]
       \/ /\ th' = Finish(t, RemoteError)
          /\ UNCHANGED keys
    /\ UNCHANGED <<vms, nextId, local_metadata, cached_nodes, lock, hist, nOps>>

\* mutant: node_config's tags win over the caller's
ConfigTags_cfgwins(cfg, tags) ==
    DictUpdate(DictUpdate(tags, cfg), Tag(TAG_RAY_CLUSTER_NAME, cluster_name))

\* config_tags = node_config.get('tags', {}).copy(); update(tags);
\* config_tags[TAG_RAY_CLUSTER_NAME] = self.cluster_name
ConfigTags(cfg, tags) ==
    DictUpdate(DictUpdate(cfg, tags), Tag(TAG_RAY_CLUSTER_NAME, cluster_name))

\* self.lambda_client.up(...): one VM is started under the given key and
\* returned; or the response holds no VM; or the call raises.
create_node_up(t) ==
    /\ th[t].pc = "cn_up"
    /\ \/ /\ nextId \in Ids
          /\ vms' = [vms EXCEPT ![nextId] =
                        [name |-> keys[th[t].key_id], st |-> "booting"]]
          /\ nextId' = nextId + 1
          /\ th' = [th EXCEPT ![t].pc = "cn_md",
                              ![t].vm_list = (nextId :> vms'[nextId])]
       \/ /\ th' = [th EXCEPT ![t].pc = "cn_md", ![t].vm_list = <<>>]
          /\ UNCHANGED <<vms, nextId>>
       \/ /\ th' = Finish(t, RemoteError)
          /\ UNCHANGED <<vms, nextId>>
    /\ UNCHANGED <<keys, local_metadata, cached_nodes, lock, hist, nOps>>

\* mutant: a response without exactly one VM is passed over in silence
AssertOneVm_silent(vm_list) == Ok(TRUE)

\* assert len(vm_list) == 1, len(vm_list)
AssertOneVm(vm_list) == IF Cardinality(vm_list) = 1 THEN Ok(TRUE) ELSE Err

\* the group filter on the response, assert len(vm_list) == 1, and
\* self.local_metadata[vm_id] = {'tags': config_tags}
create_node_store(t) ==
    /\ th[t].pc = "cn_md"
    /\ LET vm_list == GroupVms(th[t].vm_list)
       IN IF Cardinality(vm_list) = 1
          THEN LET vm_id == CHOOSE i \in vm_list : TRUE
               IN /\ local_metadata' =
                        [i \in (DOMAIN local_metadata) \cup {vm_id} |->
                            IF i = vm_id THEN ConfigTags(th[t].cfg, th[t].tags)
                            ELSE local_metadata[i]]
                  /\ created' = [i \in (DOMAIN created) \cup {vm_id} |->
                                    IF i = vm_id THEN th[t].tags ELSE created[i]]
                  /\ expect' = Forget(vm_id)
                  /\ th' = Finish(t, AssertOneVm(vm_list))
          ELSE /\ th' = Finish(t, AssertOneVm(vm_list))
               /\ UNCHANGED <<local_metadata, created, expect>>
    /\ UNCHANGED <<vms, keys, nextId, cached_nodes, lock, termDone, frozen, nMut>>
    /\ UNCHANGED nOps

\* ------------------------------------------------ environment
\* The remote side: a booting VM comes up; a deletion becomes visible.
RemoteProgress ==
    /\ \E id \in Ids :
        \/ /\ vms[id].st = "booting"
           /\ vms' = [vms EXCEPT ![id].st = "running"]
        \/ /\ vms[id].st = "deleting"
           /\ \E st \in {"terminated", "gone"} : vms' = [vms EXCEPT ![id].st = st]
        \/ /\ vms[id].st = "terminated"
           /\ vms' = [vms EXCEPT ![id].st = "gone"]
    /\ UNCHANGED <<keys, nextId, local_metadata, cached_nodes, lock, th, hist, nOps>>

Next ==
    \/ \E t \in Threads :
        \/ get_filtered_nodes_acquire(t)
        \/ get_filtered_nodes_ls(t)
        \/ get_filtered_nodes_match(t)
        \/ get_filtered_nodes_store(t)
        \/ non_terminated_nodes(t)
        \/ non_terminated_nodes_return(t)
        \/ is_running(t)
        \/ is_running_get(t)
        \/ is_terminated(t)
        \/ is_terminated_get(t)
        \/ node_tags(t)
        \/ node_tags_read(t)
        \/ node_tags_get(t)
        \/ set_node_tags(t)
        \/ set_node_tags_acquire(t)
        \/ set_node_tags_check(t)
        \/ set_node_tags_get(t)
        \/ terminate_node(t)
        \/ terminate_node_store(t)
        \/ create_node(t)
        \/ create_node_key_add(t)
        \/ create_node_up(t)
        \/ create_node_store(t)
    \/ RemoteProgress

Spec == Init /\ [][Next]_vars

\* A thread inside a call goes on: its code runs and the remote calls it
\* makes return (with a value or an exception).
Proceed(t) ==
    \/ get_filtered_nodes_ls(t)
    \/ get_filtered_nodes_match(t)
    \/ get_filtered_nodes_store(t)
    \/ non_terminated_nodes_return(t)
    \/ is_running_get(t)
    \/ is_terminated_get(t)
    \/ node_tags_read(t)
    \/ node_tags_get(t)
    \/ set_node_tags_check(t)
    \/ set_node_tags_get(t)
    \/ terminate_node_store(t)
    \/ create_node_key_add(t)
    \/ create_node_up(t)
    \/ create_node_store(t)

\* self.lock.acquire() in the wrapper
LockAcquire(t) == get_filtered_nodes_acquire(t) \/ set_node_tags_acquire(t)

\* where each thread is; every step of Proceed and LockAcquire changes it
pcs == [t \in Threads |-> th[t].pc]

\* Threads are scheduled fairly, and a thread that finds the lock free
\* again and again gets it in the end; callers need not make further calls.
Fairness ==
    \A t \in Threads : WF_pcs(Proceed(t)) /\ SF_pcs(LockAcquire(t))

\* A caller makes a call on the provider.
Call(t) ==
    \/ non_terminated_nodes(t)
    \/ is_running(t)
    \/ is_terminated(t)
    \/ node_tags(t)
    \/ set_node_tags(t)
    \/ terminate_node(t)
    \/ create_node(t)

\* The same program, its callers making MaxOpsFair calls in all.
NextFair ==
    \/ \E t \in Threads :
        \/ Proceed(t)
        \/ LockAcquire(t)
        \/ nOps < MaxOpsFair /\ Call(t)
    \/ RemoteProgress

SpecFair == Init /\ [][NextFair]_vars /\ Fairness

\* ====================================================================
\* sky/clouds/lambda_labs.py: Lambda.get_feasible_launchable_resources
\* ====================================================================
Lambda == "Lambda"
\* mutant: another instance type
get_default_instance_type_other == "gpu_1x_a100"
get_default_instance_type == "gpu_1x_a100_sxm4"

\* An accelerator mapping: name -> count, for the names requested.
Acc(name, n) == [x \in {name} |-> n]
AcceleratorInputs ==
    {None, Some(Acc("A100", 1)), Some(Acc("A100", 8)), Some(Acc("V100", 0)),
     Some([x \in {"A100", "V100"} |-> 1])}

\* The requests: a Resources value, whose is_launchable() is its own business.
ResourceInputs ==
    [cloud : {None, Some(Lambda)},
     instance_type : {None, Some("gpu_1x_a100_sxm4"), Some("gpu_8x_v100")},
     accelerators : AcceleratorInputs,
     use_spot : BOOLEAN,
     region : {None, Some("us-east-1")},
     zone : {None, Some("us-east-1a")},
     launchable : BOOLEAN]

\* What service_catalog.get_instance_type_for_accelerator answers when it
\* is asked: (instance_list or None, fuzzy_candidate_list).
OracleAnswers ==
    [instance_list : {None, Some(<<>>), Some(<<"gpu_1x_a100">>),
                      Some(<<"gpu_1x_a100", "gpu_8x_a100">>),
                      Some(<<"gpu_8x_a100", "gpu_1x_a100">>)},
     fuzzy : {<<>>, <<"A100:2">>}]

Candidates(cs, fz, asked) ==
    [kind |-> "ok", candidates |-> cs, fuzzy |-> fz, asked |-> asked]
AssertionError ==
    [kind |-> "assert", candidates |-> <<>>, fuzzy |-> <<>>, asked |-> FALSE]

\* mutant: the accelerators are kept
StripAccelerators_keep(resources) == resources

\* resources.copy(accelerators=None)
StripAccelerators(resources) == [resources EXCEPT !.accelerators = None]

\* mutant: the candidates come out in reverse order
make_reversed(resources, instance_list) ==
    [i \in 1..Len(instance_list) |->
        [resources EXCEPT !.cloud = Some(Lambda),
                          !.instance_type =
                              Some(instance_list[Len(instance_list) + 1 - i]),
                          !.accelerators = None]]

\* _make: one candidate per instance type, in the list's order
make(resources, instance_list) ==
    [i \in 1..Len(instance_list) |->
        [resources EXCEPT !.cloud = Some(Lambda),
                          !.instance_type = Some(instance_list[i]),
                          !.accelerators = None]]

\* mutant: any number of accelerator kinds passes
OneAccelerator_any(accelerators) == Cardinality(DOMAIN accelerators) >= 1

\* assert len(accelerators) == 1
OneAccelerator(accelerators) == Cardinality(DOMAIN accelerators) = 1

\* the spot test that opens the method
SpotRejected(resources) == resources.use_spot

get_feasible_launchable_resources(resources, oracle) ==
    IF SpotRejected(resources) THEN Candidates(<<>>, <<>>, FALSE)
    ELSE IF resources.instance_type.some
    THEN IF ~resources.launchable THEN AssertionError
         ELSE Candidates(<<StripAccelerators(resources)>>, <<>>, FALSE)
    ELSE IF ~resources.accelerators.some
    THEN Candidates(make(resources, <<get_default_instance_type>>), <<>>, FALSE)
    ELSE IF ~OneAccelerator(resources.accelerators.val)
    THEN AssertionError
    ELSE IF ~oracle.instance_list.some
    THEN Candidates(<<>>, oracle.fuzzy, TRUE)
    ELSE Candidates(make(resources, oracle.instance_list.val), oracle.fuzzy, TRUE)

\* The provider is left as constructed; only the resolver is called.
InitResolver ==
    /\ fresh = TRUE
    /\ vms = [i \in Ids |-> IF i = 1 THEN [name |-> OtherGroup, st |-> "running"]
                                     ELSE [name |-> "", st |-> "none"]]
    /\ keys = <<OtherGroup>>
    /\ nextId = 2
    /\ local_metadata = [i \in {1} |-> Tag("a", "1")]
    /\ cached_nodes = <<>>
    /\ lock = [owner |-> 0, count |-> 0]
    /\ th = [t \in Threads |-> Blank]
    /\ termDone = {}
    /\ created = <<>>
    /\ nMut = 0
    /\ nOps = 0
    /\ expect = <<>>
    /\ \E r \in ResourceInputs, o \in OracleAnswers :
        rs = [pc |-> "call", resources |-> r, oracle |-> o, out |-> None]

Resolve ==
    /\ rs.pc = "call"
    /\ rs' = [rs EXCEPT !.pc = "done",
                        !.out = get_feasible_launchable_resources(rs.resources,
                                                                  rs.oracle)]
    /\ UNCHANGED <<vms, keys, nextId, local_metadata, cached_nodes, lock, th,
                   termDone, created, fresh, nMut, nOps, expect>>

NextResolver == Resolve

SpecResolver == InitResolver /\ [][NextResolver]_vars

\* ====================================================================
\* Claims about the node provider (specification Spec)
\* ====================================================================
IsDone(t, op) == th[t].pc = "done" /\ th[t].op = op /\ th[t].result.kind = "ok"

\* The thread's next step issues a remote call or reads or writes
\* cached_nodes: it is inside that part of its operation.
RemoteOrCacheStep(t) ==
    th[t].pc \in {"rf_ls", "rf_store", "st_check", "gn_get", "gc_read",
                  "cn_key_add", "cn_up"}

\* C1: every operation issues its remote calls and reads or writes
\* cached_nodes while holding the lock, so no two threads are inside a remote
\* call or a cache access at the same time.
C1_AccessUnderLock ==
    /\ \A t \in Threads : RemoteOrCacheStep(t) => lock.owner = t
    /\ \A t1, t2 \in Threads :
        t1 # t2 => ~(RemoteOrCacheStep(t1) /\ RemoteOrCacheStep(t2))

\* C2: the list non_terminated_nodes returns holds no id that the listing
\* read by that call's refresh marks terminated.
C2_NoTerminatedReturned ==
    \A t \in Threads :
        IsDone(t, "non_terminated_nodes") =>
            \A id \in th[t].result.val[1] :
                /\ id \in DOMAIN th[t].vms_l
                /\ ~VmIsTerminated(th[t].vms_l[id].st)

C2_Witness ==
    \E t \in Threads :
        /\ IsDone(t, "non_terminated_nodes")
        /\ \E id \in DOMAIN th[t].nodes :
            VmIsTerminated(th[t].vms_l[id].st) /\ id \notin th[t].result.val[1]

\* C3: a non_terminated_nodes call made after terminate_node(id) returned
\* and the remote side shows the deletion (id unlisted or marked
\* terminated) does not return id, whatever its tag filter.
C3_TerminatedStaysOut ==
    \A t \in Threads :
        IsDone(t, "non_terminated_nodes") =>
            th[t].result.val[1] \cap th[t].excl = {}

C3_Witness ==
    \E t \in Threads :
        /\ IsDone(t, "non_terminated_nodes")
        /\ \E id \in th[t].excl : id \in DOMAIN th[t].nodes

\* C4: node_tags(id) returns the node's earlier tags overlaid with the tags
\* of every set_node_tags(id, .) call made since, in the order of the calls,
\* whatever refreshes happened in between.
C4_SetNodeTagsMerges ==
    \A t \in Threads :
        (IsDone(t, "node_tags") /\ th[t].want.kind = "ok") =>
            th[t].result.val[1] = th[t].want.val[1].tags

C4_Witness ==
    \E t \in Threads :
        /\ IsDone(t, "node_tags")
        /\ th[t].want.kind = "ok"
        /\ th[t].want.val[1].n = 2
        /\ {"a", "b", TAG_RAY_CLUSTER_NAME} \subseteq DOMAIN th[t].result.val[1]
        /\ th[t].result.val[1]["a"] = "2"
        /\ th[t].result.val[1]["b"] = "2"

\* An unfiltered non_terminated_nodes call that began after the one
\* create_node call made so far, on a group that was fresh, stored its tags;
\* no other call has changed anything.
C5_Case(q) ==
    /\ IsDone(q, "non_terminated_nodes")
    /\ th[q].filt = EmptyTags
    /\ fresh
    /\ nMut = 1
    /\ th[q].seen # {}

C5_OneKeyOneVm ==
    /\ Cardinality(GroupKeys(keys)) = 1
    /\ Cardinality({i \in Ids : vms[i].name = resource_group}) = 1

C5_Tags(q, callerKeys(_)) ==
    /\ Cardinality(DOMAIN th[q].nodes) = 1
    /\ \A id \in DOMAIN th[q].nodes :
        /\ id \in DOMAIN created
        /\ LET tg == th[q].nodes[id].tags
           IN /\ \A k \in callerKeys(created[id]) :
                    k \in DOMAIN tg /\ tg[k] = created[id][k]
              /\ TAG_RAY_CLUSTER_NAME \in DOMAIN tg
              /\ tg[TAG_RAY_CLUSTER_NAME] = cluster_name

AllKeys(tags) == DOMAIN tags
KeysButClusterName(tags) == (DOMAIN tags) \ {TAG_RAY_CLUSTER_NAME}

\* C5 as stated: after create_node(config, tags, 1) on a fresh group there
\* is one key, one VM, and the next refresh has exactly one record, whose
\* tags contain every caller-supplied tag and the cluster-name tag.
C5_Original ==
    \A q \in Threads : C5_Case(q) => C5_OneKeyOneVm /\ C5_Tags(q, AllKeys)

\* C5 as amended: the same, for every caller-supplied tag but one keyed
\* ray-cluster-name, whose value the manager's cluster name replaces.
C5_CreateOnFreshGroup ==
    \A q \in Threads :
        C5_Case(q) => C5_OneKeyOneVm /\ C5_Tags(q, KeysButClusterName)

C5_Witness ==
    \E q \in Threads :
        /\ C5_Case(q)
        /\ \E id \in DOMAIN th[q].nodes :
            /\ "a" \in DOMAIN th[q].nodes[id].tags
            /\ th[q].nodes[id].tags["a"] = "1"

\* C6: is_terminated(id) returns true only if the unfiltered listing read
\* by that same call lacks id (among the group's VMs) or marks it terminated.
C6_IsTerminatedFromOwnRefresh ==
    \A t \in Threads :
        (IsDone(t, "is_terminated") /\ th[t].result.val[1]) =>
            \/ th[t].node_id \notin GroupVms(th[t].vms_l)
            \/ VmIsTerminated(th[t].vms_l[th[t].node_id].st)

\* C7: at most one key named resource_group is ever registered remotely.
C7_AtMostOneGroupKey == Cardinality(GroupKeys(keys)) <= 1

Finished(t, op) == th[t].pc = "done" /\ th[t].op = op

C12_WitnessUnfiltered ==
    \E t \in Threads :
        /\ IsDone(t, "non_terminated_nodes")
        /\ th[t].filt = EmptyTags
        /\ th[t].nomd # {}

C12_WitnessFiltered ==
    \E t \in Threads :
        /\ IsDone(t, "non_terminated_nodes")
        /\ th[t].filt # EmptyTags
        /\ th[t].nomd # {}

\* C13: an unfiltered non_terminated_nodes call made after create_node(config,
\* tags, 1) returned (the only mutating call so far) contains the new id; an
\* is_terminated(id) call made after terminate_node(id) returned answers
\* true, and a non_terminated_nodes call made then does not contain id.
C13_ImmediateAppearAndTerminate ==
    \A t \in Threads :
        /\ (IsDone(t, "non_terminated_nodes") /\ th[t].filt = EmptyTags
             /\ nMut = 1)
                => th[t].seen \subseteq th[t].result.val[1]
        /\ (IsDone(t, "is_terminated") /\ th[t].node_id \in th[t].term)
                => th[t].result.val[1]
        /\ IsDone(t, "non_terminated_nodes")
                => th[t].result.val[1] \cap th[t].term = {}

\* The step of a refresh that assigns self.cached_nodes.
C14_StoreStep(t) == th[t].pc = "rf_store" /\ th'[t].pc # "rf_store"

\* The group's listed VMs whose local tags, as the refresh read them for
\* the filter, hold every key of the filter with the filter's value.
C14_Passing(t) == th[t].pass

\* C14 as stated: a refresh leaves in the cache one record for every listed
\* VM of the group, whatever its tag filter; the map it returns holds the
\* records that pass the filter.
C14_Original ==
    [][\A t \in Threads :
        C14_StoreStep(t) =>
            /\ DOMAIN cached_nodes' = GroupVms(th[t].vms_l)
            /\ th[t].ret = "ntn_ret" => DOMAIN th'[t].nodes = C14_Passing(t)]_vars

\* C14 as amended: a refresh leaves in the cache exactly the records of the
\* group's listed VMs that pass its tag filter (no older record survives),
\* each with the listing's status and the stored tags, and returns the cache.
C14_CacheIsFilteredResult ==
    [][\A t \in Threads :
        C14_StoreStep(t) =>
            /\ DOMAIN cached_nodes' = C14_Passing(t)
            /\ \A i \in C14_Passing(t) :
                /\ cached_nodes'[i].status = VmState(th[t].vms_l[i].st)
                /\ cached_nodes'[i].is_terminated = VmIsTerminated(th[t].vms_l[i].st)
                /\ cached_nodes'[i].tags =
                      IF i \in DOMAIN local_metadata THEN local_metadata[i]
                      ELSE EmptyTags
            /\ th[t].ret = "ntn_ret" => th'[t].nodes = cached_nodes']_vars

\* a filtered refresh has just stored a cache that lacks a listed VM of the
\* group and dropped the record an earlier refresh had cached for it
C14_Witness ==
    \E t \in Threads :
        /\ th[t].pc = "ntn_ret"
        /\ th[t].filt # EmptyTags
        /\ th[t].nodes = cached_nodes
        /\ GroupVms(th[t].vms_l) \ DOMAIN cached_nodes # {}
        /\ \E u \in Threads :
            /\ IsDone(u, "non_terminated_nodes")
            /\ DOMAIN th[u].nodes \ DOMAIN cached_nodes # {}

\* C15: non_terminated_nodes(tag_filters) returns exactly the ids of the
\* VMs in the listing it read that carry the resource group as key name,
\* are not marked terminated, and whose local tags (as the call read them)
\* hold every key of tag_filters with its value; a VM of another group is
\* never returned.
C15_ExactResult ==
    \A t \in Threads :
        IsDone(t, "non_terminated_nodes") =>
            /\ th[t].result.val[1] =
                  {i \in th[t].pass : ~VmIsTerminated(th[t].vms_l[i].st)}
            /\ \A i \in th[t].result.val[1] : vms[i].name = resource_group

\* a filtered call returned one VM and left out a listed one of another
\* group whose stored tags match the filter
C15_Witness ==
    \E t \in Threads :
        /\ IsDone(t, "non_terminated_nodes")
        /\ th[t].filt = Tag("a", "1")
        /\ th[t].result.val[1] = {2}
        /\ 1 \in DOMAIN th[t].vms_l
        /\ match_tags(local_metadata[1], th[t].filt)

\* further cases of C15: a VM is left out for being marked terminated, or
\* for tags that differ from the filter
C15_WitnessTerminated ==
    \E t \in Threads :
        /\ IsDone(t, "non_terminated_nodes")
        /\ \E i \in th[t].pass : VmIsTerminated(th[t].vms_l[i].st)

C15_WitnessMismatch ==
    \E t \in Threads :
        /\ IsDone(t, "non_terminated_nodes")
        /\ \E i \in GroupVms(th[t].vms_l) \ th[t].pass :
            i \in DOMAIN local_metadata /\ "a" \in DOMAIN local_metadata[i]

\* The step of a create_node call in which the remote creation fails: up()
\* raises, or its response does not hold exactly one VM of the group.
C16_CreationFails(t) ==
    \/ th[t].pc = "cn_up" /\ th'[t].pc \notin {"cn_up", "cn_md"}
    \/ /\ th[t].pc = "cn_md" /\ th'[t].pc # "cn_md"
       /\ Cardinality(GroupVms(th[t].vm_list)) # 1

\* C16: when the remote creation inside create_node fails, the call ends
\* there with the failure (up() is not called again), local_metadata and
\* cached_nodes are as before, and the group's key the call found or
\* registered is still registered; no step of the call before the creation
\* writes local_metadata or cached_nodes either.
C16_CreateFailureLeavesState ==
    [][\A t \in Threads :
        /\ C16_CreationFails(t) =>
            /\ th'[t].pc = "done"
            /\ th'[t].result.kind \in {"err", "remote"}
            /\ local_metadata' = local_metadata
            /\ cached_nodes' = cached_nodes
            /\ th[t].key_id \in GroupKeys(keys')
        /\ (th[t].pc \in {"cn_key_add", "cn_up"} /\ th'[t].pc # th[t].pc) =>
            /\ local_metadata' = local_metadata
            /\ cached_nodes' = cached_nodes]_vars

\* a create_node call, the only mutating call so far and on a fresh group,
\* has failed after registering the group's key: the key is there, there
\* is no VM of the group and nothing is stored for one
C16_Witness ==
    \E t \in Threads :
        /\ Finished(t, "create_node")
        /\ th[t].count = 1
        /\ th[t].result.kind \in {"err", "remote"}
        /\ fresh /\ nMut = 1
        /\ Cardinality(GroupKeys(keys)) = 1
        /\ \A i \in Ids : vms[i].name # resource_group
        /\ DOMAIN local_metadata = {1}

\* further case of C16: the failure is the assertion on the response
C16_WitnessAssertion ==
    \E t \in Threads :
        /\ Finished(t, "create_node")
        /\ th[t].result.kind = "err"
        /\ GroupKeys(keys) # {}

\* The step of terminate_node that calls rm, and the one that follows it.
C17_RmStep(t) ==
    /\ th[t].pc \in {"idle", "done"}
    /\ th'[t].op = "terminate_node"
    /\ \/ th'[t].pc # th[t].pc
       \/ th'[t].op # th[t].op
       \/ th'[t].node_id # th[t].node_id
       \/ th'[t].result.kind # th[t].result.kind
C17_StoreStep(t) == th[t].pc = "tm_md" /\ th'[t].pc # "tm_md"

\* C17: terminate_node(id) calls the remote delete first, which writes
\* neither local_metadata nor cached_nodes; when the delete fails the call
\* ends there, the entry of id intact; otherwise the next step removes the
\* entry of id, and only that, from local_metadata, the remote having
\* accepted the delete, and leaves cached_nodes as it is.
C17_TerminateOrderAndFrame ==
    [][\A t \in Threads :
        /\ C17_RmStep(t) =>
            /\ local_metadata' = local_metadata
            /\ cached_nodes' = cached_nodes
            /\ IF th'[t].pc = "done"
               THEN th'[t].result.kind = "remote" /\ vms' = vms
               ELSE th'[t].pc = "tm_md"
        /\ C17_StoreStep(t) =>
            /\ vms[th[t].node_id].st \in {"deleting", "terminated", "gone"}
            /\ DOMAIN local_metadata' = (DOMAIN local_metadata) \ {th[t].node_id}
            /\ \A i \in DOMAIN local_metadata' :
                    local_metadata'[i] = local_metadata[i]
            /\ cached_nodes' = cached_nodes
            /\ vms' = vms]_vars

\* terminate_node(id) has returned: id has no entry in the store and its
\* record is still in the cache
C17_Witness ==
    \E t \in Threads :
        /\ IsDone(t, "terminate_node")
        /\ th[t].node_id \notin DOMAIN local_metadata
        /\ th[t].node_id \in DOMAIN cached_nodes
        /\ cached_nodes[th[t].node_id].tags # EmptyTags

\* further case of C17: the remote delete failed and the entry is there
C17_WitnessFailure ==
    \E t \in Threads :
        /\ Finished(t, "terminate_node")
        /\ th[t].result.kind = "remote"
        /\ th[t].node_id \in DOMAIN local_metadata
        /\ nMut = 1

\* C18: is_running(id), when its listing call succeeds, returns a boolean
\* for every id, and false for an id that is not among the group's VMs in
\* the listing its refresh read.
C18_IsRunningTotal ==
    \A t \in Threads :
        (Finished(t, "is_running") /\ th[t].result.kind # "remote") =>
            /\ th[t].result.kind = "ok"
            /\ th[t].node_id \notin GroupVms(th[t].vms_l)
                    => th[t].result.val[1] = FALSE

\* C19: once terminate_node(id) has completed, no later operation re-creates
\* the entry of id in local_metadata; stated for the operation the claim
\* names: after a set_node_tags(id, .) call made once terminate_node(id) had
\* completed, local_metadata holds no entry for id.
C19_EntryStaysRemoved ==
    \A t \in Threads :
        (IsDone(t, "set_node_tags") /\ th[t].node_id \in th[t].term)
            => th[t].node_id \notin DOMAIN local_metadata

\* the same for every later state, whatever the operations
C19_NoEntryInAnyLaterState ==
    \A id \in termDone : id \notin DOMAIN local_metadata

\* The thread is blocked in self.lock.acquire().
WaitsForLock(t) == th[t].pc \in {"rf_acq", "st_acq"}
\* The synchronized frames the thread is in.
LockDepth(t) ==
    CASE th[t].op = "set_node_tags" /\ th[t].pc \in {"st_check", "rf_acq", "gn_get"} -> 1
      [] th[t].op = "set_node_tags" /\ th[t].pc \in {"rf_ls", "rf_match", "rf_store"} -> 2
      [] th[t].op # "set_node_tags" /\ th[t].pc \in {"rf_ls", "rf_match", "rf_store"} -> 1
      [] OTHER -> 0

\* the lock is held exactly by the thread inside synchronized code, as many
\* times as it has frames open: after a return or an exception it is free
C20_LockHeldOnlyInside ==
    /\ \A t \in Threads : lock.owner = t <=> LockDepth(t) > 0
    /\ \A t \in Threads : lock.owner = t => lock.count = LockDepth(t)
    /\ lock.owner = 0 <=> lock.count = 0

\* C20: the lock is never left held (it is held only inside synchronized
\* code, so it is free after a normal return and after a failure),
\* set_node_tags' nested refresh takes it again without blocking, and every
\* thread that waits for the lock gets it.
C20_LockReleasedAndAcquired ==
    /\ []C20_LockHeldOnlyInside
    /\ \A t \in Threads :
        WaitsForLock(t) ~> (lock.owner = t /\ ~WaitsForLock(t))

\* a set_node_tags call holds the lock twice, in its nested refresh, while
\* another thread waits for the lock
C20_Witness ==
    \E t, u \in Threads :
        /\ lock.owner = t /\ lock.count = 2
        /\ u # t /\ WaitsForLock(u)

\* further cases of C20: the lock is free after a failure inside
\* synchronized code
C20_WitnessFailure ==
    \E t \in Threads :
        /\ Finished(t, "set_node_tags")
        /\ th[t].result.kind \in {"err", "remote"}
        /\ lock.owner = 0

\* ====================================================================
\* Claims about the resolver (specification SpecResolver)
\* ====================================================================
Resolved == rs.pc = "done"

C8_Result ==
    /\ rs.out.kind = "ok"
    /\ Len(rs.out.candidates) = 1
    /\ rs.out.candidates[1].accelerators = None
    /\ rs.out.fuzzy = <<>>

\* C8 as stated: a launchable request with instance_type set gets exactly
\* one candidate, with accelerators cleared, and an empty fuzzy list,
\* whatever its accelerators, region, zone and spot flag.
C8_Original ==
    (Resolved /\ rs.resources.instance_type.some /\ rs.resources.launchable)
        => C8_Result

\* C8 as amended: the same for requests that do not ask for spot.
C8_InstanceTypeSet ==
    (/\ Resolved
     /\ rs.resources.instance_type.some
     /\ rs.resources.launchable
     /\ ~rs.resources.use_spot)
        => /\ C8_Result
           /\ rs.out.candidates[1] = [rs.resources EXCEPT !.accelerators = None]

C8_Witness ==
    /\ Resolved
    /\ rs.resources.instance_type.some
    /\ rs.resources.launchable
    /\ ~rs.resources.use_spot
    /\ rs.resources.accelerators.some
    /\ rs.resources.region.some
    /\ Len(rs.out.candidates) = 1

C9_Result ==
    /\ rs.out.kind = "ok"
    /\ Len(rs.out.candidates) = 1
    /\ rs.out.candidates[1].instance_type = Some("gpu_1x_a100_sxm4")
    /\ rs.out.candidates[1].accelerators = None
    /\ rs.out.fuzzy = <<>>

\* C9 as stated: a request with no instance type and no accelerators gets
\* exactly one candidate, of the default instance type, and an empty fuzzy
\* list, whatever its spot flag, region and zone.
C9_Original ==
    (/\ Resolved
     /\ ~rs.resources.instance_type.some
     /\ ~rs.resources.accelerators.some)
        => C9_Result

\* C9 as amended: the same for requests that do not ask for spot.
C9_DefaultInstanceType ==
    (/\ Resolved
     /\ ~rs.resources.instance_type.some
     /\ ~rs.resources.accelerators.some
     /\ ~rs.resources.use_spot)
        => C9_Result

C9_Witness ==
    /\ Resolved
    /\ ~rs.resources.instance_type.some
    /\ ~rs.resources.accelerators.some
    /\ ~rs.resources.use_spot
    /\ rs.resources.zone.some
    /\ Len(rs.out.candidates) = 1

\* An accelerator-only request that reaches the catalog query: no instance
\* type, one accelerator kind, count >= 1 (a spot request is turned away
\* before the catalog is asked).
C10_Case ==
    /\ Resolved
    /\ ~rs.resources.instance_type.some
    /\ rs.resources.accelerators.some
    /\ Cardinality(DOMAIN rs.resources.accelerators.val) = 1
    /\ \A k \in DOMAIN rs.resources.accelerators.val :
        rs.resources.accelerators.val[k] >= 1
    /\ ~rs.resources.use_spot

C11_Case ==
    /\ Resolved
    /\ rs.resources.accelerators.some
    /\ Cardinality(DOMAIN rs.resources.accelerators.val) > 1

\* C11 as stated: a request for more than one accelerator kind always ends
\* in an assertion failure, never in a candidate list or an empty list,
\* whatever its instance type and spot flag.
C11_Original == C11_Case => rs.out.kind = "assert"

\* C11 as amended: the same for requests with no instance type and the spot
\* flag unset; the catalog is not asked.
C11_MultiAcceleratorAsserts ==
    (/\ C11_Case
     /\ ~rs.resources.instance_type.some
     /\ ~rs.resources.use_spot)
        => rs.out = AssertionError

C11_Witness ==
    /\ C11_Case
    /\ ~rs.resources.instance_type.some
    /\ ~rs.resources.use_spot
    /\ rs.resources.launchable
    /\ rs.oracle.instance_list.some
    /\ rs.out.kind = "assert"

====
